---- MODULE Spec2Model ----
(***************************************************************************)
(* A model of the LSC sound-change language front end of wdb               *)
(* (sc/src/lib.rs): the grammar handed to peg::parser!, rule by rule, and  *)
(* the ordered-choice matching that the generated parser performs on it.   *)
(*                                                                         *)
(* The grammar is data: every rule of lib.rs is a definition of the same   *)
(* name whose body is the rule's expression, written with the constructors *)
(* below (Lit, Cls, Sq, Alt, Star, Plus, Opt, SepStar, SepPlus, R, Quiet). *)
(* Eval matches an expression against the input at an offset the way the   *)
(* generated code does: no backtracking into a choice that has matched,    *)
(* greedy repetition that stops at the first failure.                      *)
(*                                                                         *)
(* The generated parser is a set of mutually recursive functions, one per  *)
(* rule.  The model runs them as a machine with an explicit call stack:    *)
(* a step either calls the rule the running rule needs next, or returns    *)
(* the running rule's outcome.  A rule's outcome depends only on the rule  *)
(* and the offset, so the machine keeps the outcome of every call it has   *)
(* finished (calls) and a later call of the same rule at the same offset   *)
(* takes it from there; the outcomes are those of the generated code.      *)
(*                                                                         *)
(* The Rust actions keep only the statement kind; the model also records   *)
(* the derivation (which rule matched which span), so that statements      *)
(* about what a text "parses as" can be read off the match.                *)
(* Offsets are 0-based as in Rust: offset p is before character p+1.       *)
(***************************************************************************)
EXTENDS Integers, Sequences, FiniteSets, TLC

(***************************************************************************)
(* Grammar expressions.                                                    *)
(***************************************************************************)
Lit(t) == [op |-> "lit", t |-> t]
Cls(set, nm) == [op |-> "cls", set |-> set, neg |-> FALSE, nm |-> nm]
NotCls(set, nm) == [op |-> "cls", set |-> set, neg |-> TRUE, nm |-> nm]
Sq(xs) == [op |-> "seq", xs |-> xs]
Alt(xs) == [op |-> "alt", xs |-> xs]
Star(x) == [op |-> "rep", x |-> x, sep |-> Sq(<<>>), hasSep |-> FALSE, min |-> 0]
Plus(x) == [op |-> "rep", x |-> x, sep |-> Sq(<<>>), hasSep |-> FALSE, min |-> 1]
SepStar(x, sep) == [op |-> "rep", x |-> x, sep |-> sep, hasSep |-> TRUE, min |-> 0]
SepPlus(x, sep) == [op |-> "rep", x |-> x, sep |-> sep, hasSep |-> TRUE, min |-> 1]
Opt(x) == [op |-> "opt", x |-> x]
Quiet(x) == [op |-> "quiet", x |-> x]
R(r) == [op |-> "ref", r |-> r]

(***************************************************************************)
(* Character sets of the scanner rules.                                    *)
(***************************************************************************)
Upper == {"A","B","C","D","E","F","G","H","I","J","K","L","M",
          "N","O","P","Q","R","S","T","U","V","W","X","Y","Z"}
Lower == {"a","b","c","d","e","f","g","h","i","j","k","l","m",
          "n","o","p","q","r","s","t","u","v","w","x","y","z"}
Digit == {"0","1","2","3","4","5","6","7","8","9"}
WhiteChars == {" ", "\t", "\r", "\n"}
AnyExcluded == {"\\", ",", ".", "=", ">", "(", ")", "*", "[", "]", "{", "}",
                "+", "?", "/", "-", "_", ":", "!", "~", "$", "@", "#", "&",
                "\n", "\r", " "}

(***************************************************************************)
(* Match results.  far/exp are the error state of the generated parser:    *)
(* the furthest offset at which a literal or a character class failed, and *)
(* what was expected there.  ex is empty for an outcome of the generated   *)
(* code (matched or failed); <<"need", r, q>> says that the outcome of     *)
(* rule r at offset q is needed first; <<"div">> marks a computation that  *)
(* never ends in the generated code: a repetition whose element matched    *)
(* without consuming, or a rule that calls itself at the same offset.      *)
(* kids lists the rule calls that matched, in order, as [tag, from, to].   *)
(***************************************************************************)
NoFar == -1

Node(tag, from, to) == [tag |-> tag, from |-> from, to |-> to]

Matched(p, kids, far, exp) ==
    [ok |-> TRUE, pos |-> p, kids |-> kids, far |-> far, exp |-> exp, ex |-> <<>>]

Failed(p, far, exp) ==
    [ok |-> FALSE, pos |-> p, kids |-> <<>>, far |-> far, exp |-> exp, ex |-> <<>>]

Diverged(p) ==
    [ok |-> FALSE, pos |-> p, kids |-> <<>>, far |-> NoFar, exp |-> {}, ex |-> <<"div">>]

Pending(r, q) ==
    [ok |-> FALSE, pos |-> q, kids |-> <<>>, far |-> NoFar, exp |-> {}, ex |-> <<"need", r, q>>]

Stop(a) == a.ex # <<>>

\* ErrorState::mark_failure over two attempts: the further offset wins, and
\* expectations at the same offset are collected together.
FarOf(a, b) == IF a.far >= b.far THEN a.far ELSE b.far

ExpOf(a, b) ==
    IF a.far > b.far THEN a.exp
    ELSE IF b.far > a.far THEN b.exp
    ELSE a.exp \cup b.exp

CharAt(s, p) == SubSeq(s, p + 1, p + 1)

(***************************************************************************)
(* The grammar of lib.rs, one definition per rule, in the order of the     *)
(* source.  W is a use of the rule `_`.  As in the source, a sequence      *)
(* binds tighter than `/`, and the repetition operators tighter than a     *)
(* sequence.                                                               *)
(***************************************************************************)
W == R("_")

Kw(a, b) == Alt(<<Lit(a), Lit(b)>>)

lsc_file == Sq(<<W, Star(R("statement"))>>)

comment ==
    Quiet(Sq(<<Opt(R("whitespace")), Lit("#"), Star(NotCls({"\n", "\r"}, "[^ '\\n' | '\\r']"))>>))

whitespace == Quiet(Plus(Cls(WhiteChars, "[' ' | '\\t' | '\\r' | '\\n']")))

newline == Quiet(Cls({"\r", "\n"}, "['\\r' | '\\n']"))

underscore == Star(Sq(<<Opt(R("comment")), R("whitespace")>>))

number == Plus(Cls(Digit, "['0'..='9']"))

sname == Plus(Cls(Upper \cup Lower \cup Digit, "['A'..='Z' | 'a'..='z' | '0'..='9']"))

any == Alt(<<Sq(<<Lit("\\"), NotCls({}, "[_]")>>), NotCls(AnyExcluded, "[^ ...]")>>)

sstr1 == R("any")

sstr == Plus(R("any"))

statement ==
    Alt(<<R("featureDecl"), R("diacriticDecl"), R("symbolDecl"), R("classDecl"),
          R("elementDecl"), R("syllableDecl"), R("deromanizer"), R("interRomanizer"),
          R("romanizer"), R("changeRule"), R("standardExpression")>>)

elementDecl == Sq(<<Kw("Element", "element"), W, R("name"), W, R("ruleElement")>>)

classDecl ==
    Sq(<<Kw("Class", "class"), W, R("name"), W, Lit("{"), W,
         SepStar(R("classElement"), Sq(<<Lit(","), W>>)), Opt(Lit(",")), Lit("}"), W>>)

classElement == Alt(<<R("elementRef"), R("text")>>)

\* featureDecl with the features after the first taken as bare names.
featureDeclBareNames ==
    Sq(<<Kw("Feature", "feature"), W,
         Alt(<<Sq(<<R("plusFeature"), Star(Sq(<<Lit(","), W, R("name"), W>>))>>),
               Sq(<<Opt(R("featureModifier")), R("name"), W, Lit("("), W,
                    Opt(Sq(<<R("nullAlias"), Lit(","), W>>)),
                    SepPlus(R("featureValue"), Sq(<<Lit(","), W>>)), Lit(")"), W>>)>>)>>)

featureDecl ==
    Sq(<<Kw("Feature", "feature"), W,
         Alt(<<SepStar(R("plusFeature"), Sq(<<Lit(","), W>>)),
               Sq(<<Opt(R("featureModifier")), R("name"), W, Lit("("), W,
                    Opt(Sq(<<R("nullAlias"), Lit(","), W>>)),
                    SepPlus(R("featureValue"), Sq(<<Lit(","), W>>)), Lit(")"), W>>)>>)>>)

plusFeature == Sq(<<Opt(R("featureModifier")), Opt(Lit("+")), W, R("name"), W>>)

featureModifier == Alt(<<Lit("(Syllable)"), Lit("syllable")>>)

nullAlias == Sq(<<Lit("*"), W, R("featureValue")>>)

diacriticDecl ==
    Sq(<<Kw("Diacritic", "diatritic"), W, R("text"), W, Star(R("diacriticModifier")),
         R("matrix"), Star(R("diacriticModifier"))>>)

diacriticModifier ==
    Sq(<<Alt(<<Lit("(Before)"), Lit("(before)"), Lit("(First)"), Lit("(first)"),
               Lit("(Floating)"), Lit("(floating)")>>), W>>)

symbolDecl ==
    Sq(<<Kw("Symbol", "symbol"), W, R("symbolName"), W,
         Alt(<<Star(Sq(<<Lit(","), W, R("symbolName")>>)), R("matrix")>>)>>)

symbolName == Sq(<<R("text"), W>>)

\* syllableDecl with the syllable expressions tried before the directives.
syllableDeclExpressionsFirst ==
    Sq(<<Kw("Syllable", "syllable"), W, Lit(":"), W,
         Alt(<<Plus(R("syllableExpression")),
               Sq(<<Kw("Explicit", "explicit"), W>>),
               Sq(<<Kw("Clear", "clear"), W>>)>>)>>)

syllableDecl ==
    Sq(<<Kw("Syllable", "syllable"), W, Lit(":"), W,
         Alt(<<Sq(<<Kw("Explicit", "explicit"), W>>),
               Sq(<<Kw("Clear", "clear"), W>>),
               Plus(R("syllableExpression"))>>)>>)

syllableExpression ==
    Sq(<<R("syllablePattern"), Opt(Sq(<<Lit("=>"), W, R("matrix")>>)),
         Opt(R("compoundEnvironment"))>>)

syllablePattern == Alt(<<R("structuredPattern"), R("ruleElement")>>)

structuredPattern ==
    Sq(<<Opt(Sq(<<R("reluctantOnset"), Lit("?:"), W>>)),
         R("unconditionalRuleElement"), Lit("::"), W, R("unconditionalRuleElement"),
         Opt(Sq(<<Lit("::"), W, R("unconditionalRuleElement")>>))>>)

reluctantOnset == R("unconditionalRuleElement")

deromanizer ==
    Sq(<<Kw("Deromanizer", "deromanizer"), W, Kw("Literal", "literal"), W,
         Lit(":"), W, R("block")>>)

romanizer ==
    Sq(<<Kw("Romanizer", "romanizer"), W, Kw("Literal", "literal"), W,
         Lit(":"), W, R("block")>>)

interRomanizer ==
    Sq(<<Kw("Romanizer-", "romanizer-"), R("ruleName"), W, Kw("Literal", "literal"), W,
         Lit(":"), W, R("block")>>)

changeRule ==
    Sq(<<R("ruleName"), W, Star(R("changeRuleModifier")), Opt(Lit(":")), W, R("block")>>)

filter == Alt(<<R("elementRef"), R("fancyMatrix")>>)

block ==
    Sq(<<R("blockElement"), W,
         Star(Sq(<<R("blockType"), Lit(":"), W, R("blockElement")>>))>>)

blockElement == Alt(<<R("expressionList"), Sq(<<Lit("("), W, R("block"), Lit(")"), W>>)>>)

blockType ==
    Sq(<<Alt(<<Kw("Then", "then"), Kw("Else", "else")>>), W, Star(R("changeRuleModifier"))>>)

changeRuleModifier == Alt(<<R("filter"), R("keywordModifier")>>)

keywordModifier ==
    Alt(<<Sq(<<Alt(<<Kw("ltr", "Ltr"), Kw("Rtl", "Rtl"), Kw("Propagate", "propagate"),
                     Kw("Defer", "defer"), Kw("Cleanup", "cleanup")>>), W>>),
          R("name")>>)

\* expressionList whose repeated element may match nothing.
expressionListNullable == Star(Opt(R("expression")))

expressionList == Star(R("expression"))

ruleName == Sq(<<R("name"), Star(Sq(<<Lit("-"), Alt(<<R("name"), R("number")>>)>>))>>)

expression == Alt(<<R("keywordExpression"), R("blockRef"), R("standardExpression")>>)

keywordExpression == Alt(<<Kw("Unchanged", "Unchanged"), Sq(<<Kw("Off", "off"), W>>)>>)

blockRef == Sq(<<Lit(":"), R("ruleName")>>)

standardExpression ==
    Sq(<<R("ruleElement"), Lit("=>"), W, R("unconditionalRuleElement"),
         Opt(R("compoundEnvironment"))>>)

ruleElement == Sq(<<R("unconditionalRuleElement"), Opt(R("compoundEnvironment"))>>)

\* unconditionalRuleElement with the sequence alternative tried first.
unconditionalRuleElementSequenceFirst ==
    Alt(<<R("sequence"), R("bounded"), R("interfix"), R("negated"), R("postfix"),
          R("simple")>>)

unconditionalRuleElement ==
    Alt(<<R("bounded"), R("interfix"), R("negated"), R("postfix"), R("simple"),
          R("sequence")>>)

bounded ==
    Alt(<<Sq(<<Lit("("), W, R("ruleElement"), Lit(")"), W>>),
          Sq(<<Lit("{"), W, SepPlus(R("ruleElement"), Sq(<<Lit(","), W>>)), Lit("}"), W>>)>>)

sequence ==
    Plus(Alt(<<R("bounded"), R("interfix"), R("negated"), R("postfix"), R("simple")>>))

compoundEnvironment ==
    Alt(<<R("condition"), R("exclusion"), Sq(<<R("condition"), R("exclusion")>>)>>)

condition == Sq(<<Lit("/"), W, Alt(<<R("environment"), R("environmentList")>>)>>)

exclusion == Sq(<<Lit("//"), W, Alt(<<R("environment"), R("environmentList")>>)>>)

environmentList ==
    Sq(<<Lit("{"), W, SepPlus(R("environment"), Sq(<<Lit(","), W>>)), Lit("}"), W>>)

environment ==
    Alt(<<Sq(<<Opt(R("unconditionalRuleElement")), Lit("_"), W,
               Opt(R("unconditionalRuleElement"))>>),
          R("unconditionalRuleElement")>>)

\* interfix with a single operator instead of a chain.
interfixOneOperator ==
    Sq(<<R("interfixElement"),
         Alt(<<Lit("&"), Lit("!&"), Lit(">")>>), W, R("interfixElement")>>)

\* interfix with whitespace skipped before the operator.
interfixSpaced ==
    Sq(<<R("interfixElement"),
         Plus(Sq(<<W, Alt(<<Lit("&"), Lit("!&"), Lit(">")>>), W, R("interfixElement")>>))>>)

interfix ==
    Sq(<<R("interfixElement"),
         Plus(Sq(<<Alt(<<Lit("&"), Lit("!&"), Lit(">")>>), W, R("interfixElement")>>))>>)

interfixElement == Alt(<<R("bounded"), R("negated"), R("postfix"), R("simple")>>)

negated == Sq(<<Lit("!"), Alt(<<R("bounded"), R("simple")>>)>>)

postfix == Alt(<<R("capture"), R("repeater")>>)

capture == Sq(<<Alt(<<R("bounded"), R("negated"), R("simple")>>), R("captureRef")>>)

repeater == Sq(<<Alt(<<R("bounded"), R("simple")>>), R("repeaterType")>>)

simple ==
    Alt(<<Sq(<<Kw("<Syl>", "<syl>"), W>>), R("elementRef"), R("captureRef"),
          R("fancyMatrix"), R("empty"), Sq(<<Lit("."), W>>), Sq(<<Lit("$"), W>>),
          Sq(<<Lit("$$"), W>>), R("text")>>)

elementRef == Sq(<<Lit("@"), R("name")>>)

captureRef == Sq(<<Opt(Lit("~")), Lit("$"), Opt(Lit(".")), R("number")>>)

fancyMatrix ==
    Sq(<<Lit("["), W,
         Star(Alt(<<R("matrixValue"), R("negatedValue"), R("absentFeature"),
                    R("featureVariable")>>)),
         Lit("]"), W>>)

negatedValue == Sq(<<Lit("!"), R("matrixValue")>>)

absentFeature == Sq(<<Lit("*"), R("name")>>)

featureVariable == Sq(<<Lit("$"), R("name")>>)

empty == Sq(<<Lit("*"), W>>)

repeaterType ==
    Alt(<<R("repeatRange"), Sq(<<Lit("+"), W>>), Sq(<<Lit("*"), W>>), Sq(<<Lit("?"), W>>)>>)

repeatRange ==
    Sq(<<Lit("*"),
         Alt(<<R("number"),
               Sq(<<Lit("("), W, Opt(R("number")), Lit("-"), Opt(R("number")), Lit(")"), W>>)>>)>>)

matrix == Sq(<<Lit("["), W, Star(R("matrixValue")), Lit("]"), W>>)

matrixValue == Sq(<<Opt(Alt(<<Lit("+"), Lit("-")>>)), R("name")>>)

featureValue == R("name")

text == Alt(<<R("name"), Sq(<<R("sstr"), Opt(Lit("!"))>>)>>)

name == R("sname")

\* The rules by name, as the generated parser resolves a rule call.
Grammar ==
    [r \in {"_"} |-> underscore] @@
    [lsc_file |-> lsc_file, comment |-> comment, whitespace |-> whitespace,
     newline |-> newline, number |-> number, sname |-> sname, any |-> any,
     sstr1 |-> sstr1, sstr |-> sstr, statement |-> statement,
     elementDecl |-> elementDecl, classDecl |-> classDecl,
     classElement |-> classElement, featureDecl |-> featureDecl,
     plusFeature |-> plusFeature, featureModifier |-> featureModifier,
     nullAlias |-> nullAlias, diacriticDecl |-> diacriticDecl,
     diacriticModifier |-> diacriticModifier, symbolDecl |-> symbolDecl,
     symbolName |-> symbolName, syllableDecl |-> syllableDecl,
     syllableExpression |-> syllableExpression, syllablePattern |-> syllablePattern,
     structuredPattern |-> structuredPattern, reluctantOnset |-> reluctantOnset,
     deromanizer |-> deromanizer, romanizer |-> romanizer,
     interRomanizer |-> interRomanizer, changeRule |-> changeRule, filter |-> filter,
     block |-> block, blockElement |-> blockElement, blockType |-> blockType,
     changeRuleModifier |-> changeRuleModifier, keywordModifier |-> keywordModifier,
     expressionList |-> expressionList, ruleName |-> ruleName,
     expression |-> expression, keywordExpression |-> keywordExpression,
     blockRef |-> blockRef, standardExpression |-> standardExpression,
     ruleElement |-> ruleElement, unconditionalRuleElement |-> unconditionalRuleElement,
     bounded |-> bounded, sequence |-> sequence,
     compoundEnvironment |-> compoundEnvironment, condition |-> condition,
     exclusion |-> exclusion, environmentList |-> environmentList,
     environment |-> environment, interfix |-> interfix,
     interfixElement |-> interfixElement, negated |-> negated, postfix |-> postfix,
     capture |-> capture, repeater |-> repeater, simple |-> simple,
     elementRef |-> elementRef, captureRef |-> captureRef, fancyMatrix |-> fancyMatrix,
     negatedValue |-> negatedValue, absentFeature |-> absentFeature,
     featureVariable |-> featureVariable, empty |-> empty,
     repeaterType |-> repeaterType, repeatRange |-> repeatRange, matrix |-> matrix,
     matrixValue |-> matrixValue, featureValue |-> featureValue, text |-> text,
     name |-> name]

(***************************************************************************)
(* Matching an expression e on input s at offset p, given the outcomes M   *)
(* of the rule calls finished so far.  Rules of SilentRules leave no node  *)
(* in the derivation.                                                      *)
(***************************************************************************)
SilentRules == {"_", "comment", "whitespace", "newline", "sname", "any", "sstr", "sstr1"}

RECURSIVE Eval(_, _, _, _)
RECURSIVE EvalSeq(_, _, _, _, _)
RECURSIVE EvalAlt(_, _, _, _, _)
RECURSIVE EvalRep(_, _, _, _, _)

\* A sequence: each element starts where the previous one ended, and the
\* first failure fails the whole sequence.
EvalSeq(xs, i, s, p, M) ==
    IF i > Len(xs) THEN Matched(p, <<>>, NoFar, {})
    ELSE LET a == Eval(xs[i], s, p, M)
         IN IF Stop(a) \/ ~a.ok THEN a
            ELSE LET b == EvalSeq(xs, i + 1, s, a.pos, M)
                 IN IF Stop(b) THEN b
                    ELSE [ok |-> b.ok, pos |-> b.pos, kids |-> a.kids \o b.kids,
                          far |-> FarOf(a, b), exp |-> ExpOf(a, b), ex |-> <<>>]

\* An ordered choice: the first alternative that matches is the result, and
\* later alternatives are not tried.
EvalAlt(xs, i, s, p, M) ==
    IF i > Len(xs) THEN Failed(p, NoFar, {})
    ELSE LET a == Eval(xs[i], s, p, M)
         IN IF Stop(a) \/ a.ok THEN a
            ELSE LET b == EvalAlt(xs, i + 1, s, p, M)
                 IN IF Stop(b) THEN b
                    ELSE [ok |-> b.ok, pos |-> b.pos, kids |-> b.kids,
                          far |-> FarOf(a, b), exp |-> ExpOf(a, b), ex |-> <<>>]

\* The end of a repetition loop at offset p, on the failed (or stopped)
\* attempt a at one more element.
RepEnd(a, p) ==
    [ok |-> TRUE, pos |-> p, kids |-> <<>>, far |-> a.far, exp |-> a.exp, ex |-> a.ex,
     n |-> 0]

\* The repetition loop at offset p: the separator (unless this is the first
\* element), then the element; the first failure of either ends the loop at
\* p, the offset after the last element.  n counts the elements matched.
EvalRep(e, first, s, p, M) ==
    LET a == IF e.hasSep /\ ~first THEN Eval(e.sep, s, p, M)
             ELSE Matched(p, <<>>, NoFar, {})
    IN IF Stop(a) THEN RepEnd(a, p)
       ELSE IF ~a.ok THEN RepEnd(a, p)
       ELSE LET b == Eval(e.x, s, a.pos, M)
            IN IF Stop(b) THEN RepEnd(b, p)
               ELSE IF ~b.ok
                   THEN RepEnd([far |-> FarOf(a, b), exp |-> ExpOf(a, b), ex |-> <<>>], p)
               ELSE IF b.pos = p THEN RepEnd(Diverged(p), p)
               ELSE LET ab == [far |-> FarOf(a, b), exp |-> ExpOf(a, b)]
                        r == EvalRep(e, FALSE, s, b.pos, M)
                    IN IF Stop(r) THEN r
                       ELSE [ok |-> TRUE, pos |-> r.pos,
                             kids |-> a.kids \o b.kids \o r.kids,
                             far |-> FarOf(ab, r), exp |-> ExpOf(ab, r),
                             ex |-> <<>>, n |-> r.n + 1]

Eval(e, s, p, M) ==
    CASE e.op = "lit" ->
           IF p + Len(e.t) <= Len(s) /\ SubSeq(s, p + 1, p + Len(e.t)) = e.t
           THEN Matched(p + Len(e.t), <<>>, NoFar, {})
           ELSE Failed(p, p, {e.t})
      [] e.op = "cls" ->
           IF p < Len(s) /\ ((CharAt(s, p) \in e.set) # e.neg)
           THEN Matched(p + 1, <<>>, NoFar, {})
           ELSE Failed(p, p, {e.nm})
      [] e.op = "seq" -> EvalSeq(e.xs, 1, s, p, M)
      [] e.op = "alt" -> EvalAlt(e.xs, 1, s, p, M)
      [] e.op = "rep" ->
           LET r == EvalRep(e, TRUE, s, p, M)
           IN IF Stop(r) THEN [ok |-> FALSE, pos |-> r.pos, kids |-> <<>>,
                               far |-> NoFar, exp |-> {}, ex |-> r.ex]
              ELSE IF r.n >= e.min THEN Matched(r.pos, r.kids, r.far, r.exp)
              ELSE Failed(p, r.far, r.exp)
      [] e.op = "opt" ->
           LET a == Eval(e.x, s, p, M)
           IN IF Stop(a) \/ a.ok THEN a ELSE Matched(p, <<>>, a.far, a.exp)
      [] e.op = "quiet" ->
           LET a == Eval(e.x, s, p, M)
           IN [a EXCEPT !.far = NoFar, !.exp = {}]
      [] e.op = "ref" ->
           IF <<e.r, p>> \notin DOMAIN M THEN Pending(e.r, p)
           ELSE LET a == M[<<e.r, p>>]
                IN IF ~a.ok \/ e.r \in SilentRules THEN [a EXCEPT !.kids = <<>>]
                   ELSE [a EXCEPT !.kids = <<Node(e.r, p, a.pos)>>]

(***************************************************************************)
(* The parser as a machine.  start is the rule that is run on input from   *)
(* offset 0: lsc_file, the one public rule, or one of the rule functions   *)
(* it is built from.  stack holds the calls in progress, innermost last,   *)
(* each <<rule, offset>>; calls maps the finished calls to their outcomes. *)
(***************************************************************************)
VARIABLES input, start, pc, stack, calls, result

\* origin remembers the statement of an accepted file whose text is being
\* parsed again on its own.  words is the words table of the database and
\* cli the state of one run of the command line program (main.rs).
VARIABLES origin, words, cli

\* evo is one call of Wdb::evolve (main.rs), upd one call of Wdb::edit
\* (main.rs) and app one call of Rule::apply (sc.rs).
VARIABLES evo, upd, app

vars == <<input, start, pc, stack, calls, result, origin, words, cli, evo, upd, app>>

toolVars == <<evo, upd, app>>

parserVars == <<input, start, pc, stack, calls, result, origin>>

cliVars == <<words, cli>>

NoOrigin == [set |-> FALSE, file |-> "", rule |-> "", kind |-> "", from |-> 0, to |-> 0]

\* No row in the words table.
NoWords == <<>>

\* The arguments of the add or phon command executed last; lang = "" is no
\* language.
NoArgs == [lang |-> "", word |-> "", homophone |-> FALSE]

\* The program is not running.  given is the --disable-checks flag of the
\* command line, disable_checks the field of Cli, cmd the subcommand to
\* execute, err whether main returned an error, checked whether
\* check_missing_ipa was called.
NotRunning ==
    [pc |-> "idle", given |-> FALSE, disable_checks |-> FALSE, interactive |-> FALSE,
     cmd |-> "none", args |-> NoArgs, err |-> FALSE, checked |-> FALSE]

\* No call of evolve, edit, apply in progress.
NoEvolve ==
    [pc |-> "idle", table |-> <<>>, from |-> "", to |-> "", l |-> "", steps |-> <<>>,
     ran |-> <<>>, err |-> "none"]

NoEdit == [pc |-> "idle", id |-> 0, args |-> <<>>, query_str |-> "", vs |-> <<>>]

NoApply ==
    [pc |-> "idle", pattern |-> <<>>, result |-> <<>>, word |-> <<>>, symbols |-> <<>>,
     panic |-> FALSE, asserted |-> TRUE]

NoCalls == [k \in {} |-> k]

\* The value of a statement rule: the Stmt its action block returns.
StmtOf ==
    [featureDecl |-> "FeatureDecl", diacriticDecl |-> "DiacriticDecl",
     symbolDecl |-> "SymbolDecl", classDecl |-> "ClassDecl",
     elementDecl |-> "ElementDecl", syllableDecl |-> "SyllableDecl",
     deromanizer |-> "Demonanizer", interRomanizer |-> "InterRomanizer",
     romanizer |-> "Romanizer", changeRule |-> "ChangeRule",
     standardExpression |-> "StandardExpression"]

\* statement returns the value of the alternative that matched.
StatementValue(M, p) == StmtOf[M[<<"statement", p>>].kids[1].tag]

\* FileValue with each value pushed at the front.
FileValueReversed(M) ==
    LET ks == M[<<"lsc_file", 0>>].kids
    IN [k \in 1..Len(ks) |-> StatementValue(M, ks[Len(ks) + 1 - k].from)]

\* lsc_file returns r, the values of statement()* in the order matched.
FileValue(M) ==
    LET ks == M[<<"lsc_file", 0>>].kids
    IN [k \in 1..Len(ks) |-> StatementValue(M, ks[k].from)]

NoResult ==
    [returns |-> FALSE, matched |-> FALSE, pos |-> 0, ok |-> FALSE, value |-> <<>>,
     location |-> NoFar, expected |-> {}]

\* Outcome that keeps the statements matched before the error.
OutcomePartial(s, r, M) ==
    LET m == M[<<r, 0>>]
        whole == m.ok /\ m.pos = Len(s)
        eof == [far |-> IF m.ok THEN m.pos ELSE NoFar, exp |-> {"EOF"}]
    IN [returns |-> m.ex = <<>>,
        matched |-> m.ok,
        pos |-> m.pos,
        ok |-> whole,
        value |-> IF m.ok /\ r = "lsc_file" THEN FileValue(M) ELSE <<>>,
        location |-> IF whole \/ m.ex # <<>> THEN NoFar
                     ELSE IF FarOf(m, eof) < 0 THEN 0 ELSE FarOf(m, eof),
        expected |-> IF whole \/ m.ex # <<>> THEN {} ELSE ExpOf(m, eof)]

\* What the caller gets once the start rule has returned m.  A public rule
\* is Ok only if the match ends at the end of the input; otherwise "EOF"
\* is one more failure, at the offset the match ended, and the error is the
\* furthest failure (offset 0 if none was recorded) with what was expected
\* there.  matched and pos are the rule function's own result.
Outcome(s, r, M) ==
    LET m == M[<<r, 0>>]
        whole == m.ok /\ m.pos = Len(s)
        eof == [far |-> IF m.ok THEN m.pos ELSE NoFar, exp |-> {"EOF"}]
    IN [returns |-> m.ex = <<>>,
        matched |-> m.ok,
        pos |-> m.pos,
        ok |-> whole,
        value |-> IF whole /\ r = "lsc_file" THEN FileValue(M) ELSE <<>>,
        location |-> IF whole \/ m.ex # <<>> THEN NoFar
                     ELSE IF FarOf(m, eof) < 0 THEN 0 ELSE FarOf(m, eof),
        expected |-> IF whole \/ m.ex # <<>> THEN {} ELSE ExpOf(m, eof)]

Top == stack[Len(stack)]

\* The running rule's body, matched with the outcomes known so far.
Run == Eval(Grammar[Top[1]], input, Top[2], calls)

Begin ==
    /\ pc = "start"
    /\ pc' = "run"
    /\ stack' = <<<<start, 0>>>>
    /\ UNCHANGED <<input, start, calls, result, origin>>
    /\ UNCHANGED <<cliVars, toolVars>>

\* The running rule calls a rule whose outcome at that offset is not known.
\* A call of a rule already in progress at the same offset never returns.
Call ==
    /\ pc = "run"
    /\ stack # <<>>
    /\ LET a == Run
           key == <<a.ex[2], a.ex[3]>>
       IN /\ Len(a.ex) = 3
          /\ IF \E i \in 1..Len(stack) : stack[i] = key
             THEN /\ calls' = (key :> Diverged(key[2])) @@ calls
                  /\ UNCHANGED stack
             ELSE /\ stack' = Append(stack, key)
                  /\ UNCHANGED calls
    /\ UNCHANGED <<input, start, pc, result, origin>>
    /\ UNCHANGED <<cliVars, toolVars>>

\* The running rule returns.
Return ==
    /\ pc = "run"
    /\ stack # <<>>
    /\ LET a == Run
       IN /\ Len(a.ex) < 3
          /\ calls' = (Top :> a) @@ calls
    /\ stack' = SubSeq(stack, 1, Len(stack) - 1)
    /\ UNCHANGED <<input, start, pc, result, origin>>
    /\ UNCHANGED <<cliVars, toolVars>>

Finish ==
    /\ pc = "run"
    /\ stack = <<>>
    /\ pc' = "done"
    /\ result' = Outcome(input, start, calls)
    /\ UNCHANGED <<input, start, stack, calls, origin>>
    /\ UNCHANGED <<cliVars, toolVars>>

(***************************************************************************)
(* The inputs.  Each case is <<start rule, input>>.                        *)
(***************************************************************************)
MaxWs == 1
MaxStmts == 2

WsChars == {" ", "\t", "\n"}

\* The runs of at most n spaces, tabs and newlines.
RECURSIVE WsRuns(_)
WsRuns(n) ==
    IF n = 0 THEN {""}
    ELSE WsRuns(n - 1) \cup {r \o c : r \in WsRuns(n - 1), c \in WsChars}

FeatureNames == {"soft", "b2", "syllable", "syllablex"}

\* A file holding one feature declaration with a single name.
FeatureFiles ==
    {pre \o "Feature " \o nm \o post :
        pre \in WsRuns(MaxWs), post \in WsRuns(MaxWs), nm \in FeatureNames}

\* A feature declaration listing three names.
Feature3(a, b, c) == "Feature " \o a \o ", " \o b \o ", " \o c

Feature3Files == {Feature3(a, b, c) : a \in FeatureNames, b \in FeatureNames, c \in FeatureNames}

\* Files made of at most n pieces of text, each a statement or the head of one.
StmtPieces == {"Feature a\n", "Class c {x}\n", "Symbol s\n", "(x)=>(y)\n", "rule1:\n"}

RECURSIVE PieceFiles(_)
PieceFiles(n) ==
    IF n = 0 THEN {""}
    ELSE PieceFiles(n - 1) \cup {f \o q : f \in PieceFiles(n - 1), q \in StmtPieces}

\* Well-formed statements followed by text no statement can start with.
TailFiles == {f \o "]" : f \in PieceFiles(MaxStmts) \ {""}}

\* Files of several statements in which a statement is followed by text
\* that its own rule could go on with.
MixedFiles ==
    {"r:a=>b\nthen x", "Element e (a)\nFeature b", "Diacritic x [a] (Before)\nFeature a",
     "rule-1 ltr:\n(a)=>(b)\nElse:\n(c)=>(d)\n", "Symbol s\n[a]=>[b]//{_ ,(c)_ }\nx",
     "Deromanizer Literal:\n(a)=>(b)/_ \nRomanizer Literal:\n"}

FileInputs ==
    FeatureFiles \cup Feature3Files \cup PieceFiles(MaxStmts) \cup TailFiles \cup MixedFiles
    \cup {"Syllable: Explicit", "syllable: clear"}
    \cup {"Feature a\nClass c {x}\nSymbol s", "Feature", "x => y / a_b", "x=>y/a_b",
          "Symbol n [m]", "Symbol n, n2", "x => y // {a_b, c_d}", "Element e a&b>c"}

\* Each keyword in a text of the rule it belongs to, <<rule, text with the
\* uppercase first letter, text with the lowercase first letter>>.  The
\* modifier texts end in a space, which only the keyword alternative skips.
KeywordPairs ==
    {<<"featureDecl", "Feature a", "feature a">>,
     <<"diacriticDecl", "Diacritic x [a]", "diacritic x [a]">>,
     <<"symbolDecl", "Symbol s", "symbol s">>,
     <<"classDecl", "Class c {x}", "class c {x}">>,
     <<"elementDecl", "Element e a", "element e a">>,
     <<"syllableDecl", "Syllable: Clear", "syllable: Clear">>,
     <<"syllableDecl", "Syllable: Explicit ", "Syllable: explicit ">>,
     <<"syllableDecl", "Syllable: Clear ", "Syllable: clear ">>,
     <<"deromanizer", "Deromanizer Literal:", "deromanizer Literal:">>,
     <<"romanizer", "Romanizer Literal:", "romanizer Literal:">>,
     <<"romanizer", "Romanizer Literal: ", "Romanizer literal: ">>,
     <<"blockType", "Then ", "then ">>,
     <<"blockType", "Else ", "else ">>,
     <<"keywordModifier", "Ltr ", "ltr ">>,
     <<"keywordModifier", "Rtl ", "rtl ">>,
     <<"keywordModifier", "Propagate ", "propagate ">>,
     <<"keywordModifier", "Defer ", "defer ">>,
     <<"keywordModifier", "Cleanup ", "cleanup ">>,
     <<"keywordExpression", "Unchanged", "unchanged">>,
     <<"keywordExpression", "Off", "off">>,
     <<"featureModifier", "(Syllable)", "(syllable)">>,
     <<"diacriticModifier", "(Before)", "(before)">>,
     <<"diacriticModifier", "(First)", "(first)">>,
     <<"diacriticModifier", "(Floating)", "(floating)">>}

KeywordCases == {<<k[1], k[2]>> : k \in KeywordPairs} \cup {<<k[1], k[3]>> : k \in KeywordPairs}

\* Statement headers followed by no expression.
EmptyBlockFiles == {"rule1:", "rule1", "Romanizer Literal:", "Deromanizer Literal:\n"}

\* A condition followed by an exclusion.
BothClauses == {"/a_b//c_d", "/ a_b // c_d", "/{a_b}//{c_d}"}

\* A bounded element, and a simple one, followed by each repeat token.
BoundedRepeats == {"(a)+", "(a)*", "(a)?", "(a)*2", "(a)*(1-2)", "{a,b}+", "{a,b}*2"}

SimpleRepeats == {"a+", "a*", "a?", "a*2", "a*(1-2)", "[a]+"}

\* Two operands joined by each two-character and one-character operator.
OperatorTexts == {"a&b", "a&!b", "a>b", "a!&b"}

\* One text per leaf form of simple.
LeafTexts == {"<Syl>", "@c", "$1", "[a]", "*", ".", "$", "$$", "ab"}

\* The text s with t put in after its first at characters.
Insert(s, at, t) == SubSeq(s, 1, at) \o t \o SubSeq(s, at + 1, Len(s))

\* Files without a comment, with the places (an offset and whether text
\* follows on the same line) where a comment can be put in: before the first
\* statement, at the end of a statement's line, between two statements and
\* after the last one.
PlainFiles ==
    {<<"Feature a\nSymbol s\n", {0, 9, 10, 18, 19}>>,
     <<"Feature a", {0, 9}>>,
     <<"", {0}>>}

CommentTexts == {"#c", " # c d"}

\* <<file with a comment, the file it was made from>>.  A comment put in
\* before other text of the plain file ends with the newline that ends its
\* line, unless the newline of the plain file is what follows; at the end
\* of the file it is put in with and without a newline after it.
CommentPairs ==
    UNION {UNION {
        LET f == pf[1]
            atEnd == at = Len(f)
            beforeNl == ~atEnd /\ SubSeq(f, at + 1, at + 1) = "\n"
        IN {<<Insert(f, at, c \o nl), f>> :
               c \in CommentTexts,
               nl \in IF atEnd THEN {"", "\n"} ELSE IF beforeNl THEN {""} ELSE {"\n"}}
        : at \in pf[2]} : pf \in PlainFiles}

CommentFiles == {cp[1] : cp \in CommentPairs} \cup {pf[1] : pf \in PlainFiles}

Cases ==
    {<<"lsc_file", f>> : f \in FileInputs \cup EmptyBlockFiles \cup {"r:(a=>b)", "r:a=>b"}}
    \cup {<<"lsc_file", f>> : f \in CommentFiles}
    \cup {<<"unconditionalRuleElement", e>> : e \in OperatorTexts}
    \cup {<<"simple", e>> : e \in LeafTexts}
    \cup KeywordCases
    \cup {<<"blockElement", "">>, <<"blockElement", "(a=>b)">>, <<"blockElement", "a=>b">>,
          <<"standardExpression", "x=>y/a_b//c_d">>}
    \cup {<<"compoundEnvironment", e>> : e \in BothClauses}
    \cup {<<"unconditionalRuleElement", e>> : e \in BoundedRepeats \cup SimpleRepeats}
    \cup {<<"symbolDecl", "Symbol n [m]">>, <<"symbolDecl", "Symbol n, n2">>,
          <<"standardExpression", "x => y / a_b">>,
          <<"standardExpression", "x => y // {a_b, c_d}">>,
          <<"standardExpression", "x=>y//{a_b, c_d}">>,
          <<"unconditionalRuleElement", "ab+">>,
          <<"unconditionalRuleElement", "a&b>c">>,
          <<"unconditionalRuleElement", "a &b">>}

Init ==
    /\ \E c \in Cases : start = c[1] /\ input = c[2]
    /\ pc = "start"
    /\ stack = <<>>
    /\ calls = NoCalls
    /\ result = NoResult
    /\ origin = NoOrigin
    /\ words = NoWords
    /\ cli = NotRunning
    /\ evo = NoEvolve
    /\ upd = NoEdit
    /\ app = NoApply

Next == Begin \/ Call \/ Return \/ Finish

Spec == Init /\ [][Next]_vars

(***************************************************************************)
(* Parsing a statement again on its own.  Once a file has been accepted,   *)
(* the text one of its statements consumed is given to the parser as a     *)
(* new input, under rule statement or under the rule of that statement.    *)
(***************************************************************************)
ReparseAs(tag, from, to, k) ==
    /\ \E r \in {"statement", tag} :
         /\ start' = r
         /\ origin' = [set |-> TRUE, file |-> input, rule |-> r,
                       kind |-> result.value[k], from |-> from, to |-> to]
    /\ input' = SubSeq(input, from + 1, to)
    /\ pc' = "start"
    /\ stack' = <<>>
    /\ calls' = NoCalls
    /\ result' = NoResult
    /\ UNCHANGED <<cliVars, toolVars>>

\* Reparse with the span taken one character late.
ReparseShifted ==
    /\ pc = "done"
    /\ start = "lsc_file"
    /\ result.ok
    /\ ~origin.set
    /\ \E k \in 1..Len(calls[<<"lsc_file", 0>>].kids) :
         LET n == calls[<<"lsc_file", 0>>].kids[k]
         IN ReparseAs(calls[<<"statement", n.from>>].kids[1].tag, n.from + 1, n.to, k)

Reparse ==
    /\ pc = "done"
    /\ start = "lsc_file"
    /\ result.ok
    /\ ~origin.set
    /\ \E k \in 1..Len(calls[<<"lsc_file", 0>>].kids) :
         LET n == calls[<<"lsc_file", 0>>].kids[k]
         IN ReparseAs(calls[<<"statement", n.from>>].kids[1].tag, n.from, n.to, k)

NextReparse == Next \/ Reparse

SpecReparse == Init /\ [][NextReparse]_vars

(***************************************************************************)
(* The command line program (main.rs).  The words table is a sequence of   *)
(* rows in the order of their ids, each with its language, romanization    *)
(* and whether it has a phonetic annotation (ipa IS NOT NULL).  The langs  *)
(* table is fixed: l1 has no origin and l2 descends from l1.               *)
(***************************************************************************)
MaxRows == 2

Langs == <<"l1", "l2">>

LangIds == {Langs[i] : i \in 1..Len(Langs)}

LangOrigin == [l \in LangIds |-> IF l = "l2" THEN "l1" ELSE ""]

ArgLangs == LangIds \cup {"zz"}

\* The words given to add, and to del and inherit (which take an index).
AddWords == {"a", " a ", "b"}

ArgWords == AddWords \cup {"a#1"}

\* The romanizations the sound change tool can give back.
ToolRoms == {"a", "b"}

Commands ==
    {"interactive", "add", "edit", "inherit", "del", "evolve", "dump", "list", "phon", "none"}

TrimChars == {" ", "\t", "\n", "\r"}

RECURSIVE TrimStart(_)
TrimStart(s) ==
    IF s # "" /\ CharAt(s, 0) \in TrimChars THEN TrimStart(SubSeq(s, 2, Len(s))) ELSE s

RECURSIVE TrimEnd(_)
TrimEnd(s) ==
    IF s # "" /\ CharAt(s, Len(s) - 1) \in TrimChars
    THEN TrimEnd(SubSeq(s, 1, Len(s) - 1)) ELSE s

\* normalize_text that only trims the start.
normalize_text_start(s) == TrimStart(s)

normalize_text(s) == TrimEnd(TrimStart(s))

\* get_lang: the row of langs with this id, or an error.
get_lang(l) == l \in LangIds

\* SELECT * FROM words WHERE romanization = ? AND lang = ?  (row numbers)
Homophones(ws, lang, rom) ==
    {i \in 1..Len(ws) : ws[i].lang = lang /\ ws[i].rom = rom}

\* The rows of a set of row numbers, in table order.
RECURSIVE InOrder(_)
InOrder(S) ==
    IF S = {} THEN <<>>
    ELSE LET m == CHOOSE x \in S : \A y \in S : x <= y
         IN <<m>> \o InOrder(S \ {m})

\* split_once('#') and the parse of the index: <<rom, index>>, index -1 if
\* there is no '#', -2 if what follows it is not a number.
HashAt(s) ==
    LET ps == {p \in 0..(Len(s) - 1) : CharAt(s, p) = "#"}
    IN IF ps = {} THEN -1 ELSE CHOOSE p \in ps : \A q \in ps : p <= q

DigitValue == [d \in {"0", "1", "2", "3", "4", "5", "6", "7", "8", "9"} |->
                  CHOOSE n \in 0..9 : SubSeq("0123456789", n + 1, n + 1) = d]

SplitIndex(s) ==
    LET h == HashAt(s)
        tail == SubSeq(s, h + 2, Len(s))
    IN IF h < 0 THEN <<s, -1>>
       ELSE IF Len(tail) = 1 /\ tail \in DOMAIN DigitValue
            THEN <<SubSeq(s, 1, h), DigitValue[tail]>>
            ELSE <<SubSeq(s, 1, h), -2>>

\* try_get_unique_word: the row number of the word, or 0 for an error.
try_get_unique_word(ws, lang, word) ==
    LET sp == SplitIndex(word)
        found == InOrder(Homophones(ws, lang, sp[1]))
    IN IF sp[2] = -2 \/ found = <<>> THEN 0
       ELSE IF sp[2] >= 0 THEN (IF sp[2] >= Len(found) THEN 0 ELSE found[sp[2] + 1])
       ELSE IF Len(found) = 1 THEN found[1]
       ELSE 0

Without(ws, i) == SubSeq(ws, 1, i - 1) \o SubSeq(ws, i + 1, Len(ws))

\* The state of main after a command: an error ends main at once (the ?
\* operator), a command that succeeded leaves the loop unless interactive.
After(ok, args) ==
    [cli EXCEPT !.pc = IF ~ok THEN "exit" ELSE IF cli.interactive THEN "read" ELSE "check",
                !.err = ~ok,
                !.args = args]

\* main up to the loop: the command line is parsed and the database opened.
\* Opening the vault, the settings or the database may fail.
main ==
    /\ cli.pc = "idle"
    /\ \E given \in BOOLEAN, c \in Commands, opened \in BOOLEAN :
         cli' = [pc |-> IF opened THEN "exec" ELSE "exit",
                 given |-> given, disable_checks |-> given,
                 interactive |-> (c = "interactive"), cmd |-> c, args |-> NoArgs,
                 err |-> ~opened, checked |-> FALSE]
    /\ UNCHANGED words
    /\ UNCHANGED <<parserVars, toolVars>>

\* Wdb::add.  tool is whether the deromanization and the dump that may
\* follow the insert succeed.
add ==
    /\ cli.pc = "exec"
    /\ cli.cmd = "add"
    /\ \E lang \in ArgLangs, word \in AddWords, homophone \in BOOLEAN,
          ipa \in BOOLEAN, disable_autorom \in BOOLEAN, tool \in BOOLEAN :
         LET rom == normalize_text(word)
             args == [lang |-> lang, word |-> word, homophone |-> homophone]
         IN IF ~get_lang(lang) THEN
                cli' = After(FALSE, args) /\ UNCHANGED words
            ELSE IF ~homophone /\ Homophones(words, lang, rom) # {} THEN
                cli' = After(FALSE, args) /\ UNCHANGED words
            ELSE IF ~ipa /\ ~disable_autorom /\ ~tool THEN
                cli' = After(FALSE, args) /\ UNCHANGED words
            ELSE /\ Len(words) < MaxRows
                 /\ words' = Append(words, [lang |-> lang, rom |-> rom,
                                            ipa |-> ipa \/ ~disable_autorom])
                 /\ cli' = After(tool, args)
    /\ UNCHANGED <<parserVars, toolVars>>

\* Wdb::del.
del ==
    /\ cli.pc = "exec"
    /\ cli.cmd = "del"
    /\ \E lang \in ArgLangs, word \in ArgWords, dumped \in BOOLEAN :
         LET args == NoArgs
             i == try_get_unique_word(words, lang, normalize_text(word))
         IN IF ~get_lang(lang) \/ i = 0 THEN
                cli' = After(FALSE, args) /\ UNCHANGED words
            ELSE words' = Without(words, i) /\ cli' = After(dumped, args)
    /\ UNCHANGED <<parserVars, toolVars>>

\* Wdb::inherit of one word.  The romanization of the new word is what the
\* sound change tool gives back.
inherit ==
    /\ cli.pc = "exec"
    /\ cli.cmd = "inherit"
    /\ \E lang \in ArgLangs, word \in ArgWords, tool \in BOOLEAN, rom \in ToolRoms,
          dumped \in BOOLEAN :
         LET args == NoArgs
             src == IF get_lang(lang) THEN LangOrigin[lang] ELSE ""
             i == IF src = "" THEN 0 ELSE try_get_unique_word(words, src, word)
         IN IF i = 0 \/ ~words[i].ipa \/ ~tool THEN
                cli' = After(FALSE, args) /\ UNCHANGED words
            ELSE /\ Len(words) < MaxRows
                 /\ words' = Append(words, [lang |-> lang, rom |-> rom, ipa |-> TRUE])
                 /\ cli' = After(dumped, args)
    /\ UNCHANGED <<parserVars, toolVars>>

\* The words of language l that deromanize annotates.
ToAnnotate(ws, l, force) == {i \in 1..Len(ws) : ws[i].lang = l /\ (force \/ ~ws[i].ipa)}

\* Wdb::deromanize over the languages ls in order; the tool fails at
\* language bad, if it is run there.  <<table, succeeded>>.
RECURSIVE Annotated(_, _, _, _)
Annotated(ws, ls, force, bad) ==
    IF ls = <<>> THEN <<ws, TRUE>>
    ELSE IF ToAnnotate(ws, ls[1], force) = {} THEN Annotated(ws, Tail(ls), force, bad)
    ELSE IF ls[1] = bad THEN <<ws, FALSE>>
    ELSE Annotated([i \in 1..Len(ws) |->
                       IF i \in ToAnnotate(ws, ls[1], force)
                       THEN [ws[i] EXCEPT !.ipa = TRUE] ELSE ws[i]],
                   Tail(ls), force, bad)

\* The phon command: main sets disable_checks from its language argument
\* and calls Wdb::deromanize.
deromanize ==
    /\ cli.pc = "exec"
    /\ cli.cmd = "phon"
    /\ \E lang \in ArgLangs \cup {""}, force \in BOOLEAN, bad \in LangIds \cup {""} :
         LET args == [NoArgs EXCEPT !.lang = lang]
             c == [cli EXCEPT !.disable_checks = (lang = "")]
             res == Annotated(words, IF lang = "" THEN Langs ELSE <<lang>>, force, bad)
         IN IF lang # "" /\ ~get_lang(lang) THEN
                /\ cli' = [c EXCEPT !.pc = "exit", !.err = TRUE, !.args = args]
                /\ UNCHANGED words
            ELSE /\ words' = res[1]
                 /\ cli' = [c EXCEPT !.pc = IF ~res[2] THEN "exit"
                                            ELSE IF cli.interactive THEN "read" ELSE "check",
                                     !.err = ~res[2], !.args = args]
    /\ UNCHANGED <<parserVars, toolVars>>

\* Wdb::edit, evolve, dump and list leave the language, romanization and
\* annotation of every word as they are; Interactive and no command do
\* nothing.  Only the first four can fail.
unchanging ==
    /\ cli.pc = "exec"
    /\ cli.cmd \in {"edit", "evolve", "dump", "list", "interactive", "none"}
    /\ \E ok \in BOOLEAN :
         /\ (cli.cmd \in {"interactive", "none"} => ok)
         /\ cli' = After(ok, NoArgs)
    /\ UNCHANGED words
    /\ UNCHANGED <<parserVars, toolVars>>

\* The inner loop of interactive mode: a line is read and parsed; its
\* command replaces cmd, its flags are dropped.  A line that does not parse
\* is read over; a read error ends main.
read_line ==
    /\ cli.pc = "read"
    /\ \E c \in Commands \cup {"error"} :
         cli' = IF c = "error" THEN [cli EXCEPT !.pc = "exit", !.err = TRUE]
                ELSE [cli EXCEPT !.pc = "exec", !.cmd = c]
    /\ UNCHANGED words
    /\ UNCHANGED <<parserVars, toolVars>>

\* The end of main: check_missing_ipa is called unless disable_checks.
check_missing_ipa ==
    /\ cli.pc = "check"
    /\ \E ok \in BOOLEAN :
         cli' = [cli EXCEPT !.pc = "exit",
                            !.checked = ~cli.disable_checks,
                            !.err = ~cli.disable_checks /\ ~ok]
    /\ UNCHANGED words
    /\ UNCHANGED <<parserVars, toolVars>>

\* The process ends; the database stays.
exit ==
    /\ cli.pc = "exit"
    /\ cli' = NotRunning
    /\ UNCHANGED words
    /\ UNCHANGED <<parserVars, toolVars>>

InitCli ==
    /\ input = ""
    /\ start = "lsc_file"
    /\ pc = "start"
    /\ stack = <<>>
    /\ calls = NoCalls
    /\ result = NoResult
    /\ origin = NoOrigin
    /\ words = NoWords
    /\ cli = NotRunning
    /\ evo = NoEvolve
    /\ upd = NoEdit
    /\ app = NoApply

NextCli ==
    \/ main \/ add \/ del \/ inherit \/ deromanize \/ unchanging
    \/ read_line \/ check_missing_ipa \/ exit

SpecCli == InitCli /\ [][NextCli]_vars

(***************************************************************************)
(* Wdb::evolve (main.rs).  The langs table is read from the database,      *)
(* which the program never writes: table maps each language id to its      *)
(* origin column, NoLang for NULL.  An origin can name any language of the *)
(* table, the language itself, or no language at all.                      *)
(***************************************************************************)
MaxWalk == 4

EvolveIds == {"l1", "l2", "l3"}

NoLang == ""

LangTables == [EvolveIds -> EvolveIds \cup {NoLang, "zz"}]

\* get_langs, then the lookups of from and to and the test that they
\* differ.
evolve_lookup ==
    /\ evo.pc = "start"
    /\ evo' = IF evo.from \notin EvolveIds
                  THEN [evo EXCEPT !.pc = "done", !.err = "no_from"]
              ELSE IF evo.to \notin EvolveIds
                  THEN [evo EXCEPT !.pc = "done", !.err = "no_to"]
              ELSE IF evo.from = evo.to
                  THEN [evo EXCEPT !.pc = "done", !.err = "same"]
              ELSE [evo EXCEPT !.pc = "walk", !.l = evo.to, !.steps = <<>>]
    /\ UNCHANGED <<parserVars, cliVars, upd, app>>

\* One iteration of `while let Some(ref l_id) = l.origin`: l is pushed and
\* replaced by its origin, and the loop is left when the origin is from.
\* steps grows with every iteration; the model stops at MaxWalk of them.
evolve_walk ==
    /\ evo.pc = "walk"
    /\ evo.table[evo.l] # NoLang
    /\ Len(evo.steps) < MaxWalk
    /\ LET l_id == evo.table[evo.l]
           pushed == Append(evo.steps, evo.l)
       IN evo' = IF l_id \notin EvolveIds
                     THEN [evo EXCEPT !.steps = pushed, !.pc = "done",
                                      !.err = "invalid_origin"]
                 ELSE [evo EXCEPT !.steps = pushed, !.l = l_id,
                                  !.pc = IF l_id = evo.from THEN "check" ELSE "walk"]
    /\ UNCHANGED <<parserVars, cliVars, upd, app>>

\* After the loop (left by break, or because l has no origin): the test
\* `l.id != from.id`.
evolve_check ==
    /\ \/ evo.pc = "check"
       \/ evo.pc = "walk" /\ evo.table[evo.l] = NoLang
    /\ evo' = IF evo.l # evo.from
                  THEN [evo EXCEPT !.pc = "done", !.err = "not_descendent"]
              ELSE [evo EXCEPT !.pc = "run"]
    /\ UNCHANGED <<parserVars, cliVars, upd, app>>

\* One iteration of `for step in steps.iter().rev()`: the sound changes of
\* step are run by the external tool, which can fail.
evolve_step ==
    /\ evo.pc = "run"
    /\ Len(evo.ran) < Len(evo.steps)
    /\ LET step == evo.steps[Len(evo.steps) - Len(evo.ran)]
           cmd == [id |-> step, first |-> evo.ran = <<>>, last |-> step = evo.to]
       IN \E ok \in BOOLEAN :
            evo' = IF ok THEN [evo EXCEPT !.ran = Append(evo.ran, cmd)]
                   ELSE [evo EXCEPT !.ran = Append(evo.ran, cmd), !.pc = "done",
                                    !.err = "tool"]
    /\ UNCHANGED <<parserVars, cliVars, upd, app>>

\* Ok(()) after the last step.
evolve_return ==
    /\ evo.pc = "run"
    /\ Len(evo.ran) = Len(evo.steps)
    /\ evo' = [evo EXCEPT !.pc = "done"]
    /\ UNCHANGED <<parserVars, cliVars, upd, app>>

InitEvolve ==
    /\ input = ""
    /\ start = "lsc_file"
    /\ pc = "start"
    /\ stack = <<>>
    /\ calls = NoCalls
    /\ result = NoResult
    /\ origin = NoOrigin
    /\ words = NoWords
    /\ cli = NotRunning
    /\ upd = NoEdit
    /\ app = NoApply
    /\ \E t \in LangTables, f \in EvolveIds \cup {"zz"}, g \in EvolveIds \cup {"zz"} :
         evo = [NoEvolve EXCEPT !.pc = "start", !.table = t, !.from = f, !.to = g]

NextEvolve ==
    evolve_lookup \/ evolve_walk \/ evolve_check \/ evolve_step \/ evolve_return

\* evolve is sequential code: a step that can be taken is taken.
SpecEvolve == InitEvolve /\ [][NextEvolve]_vars /\ WF_vars(NextEvolve)

(***************************************************************************)
(* Wdb::edit (main.rs), for a word that try_get_unique_word has found:     *)
(* id is the entry's id.  An optional argument is <<>> when absent and     *)
(* <<v>> when given with the value v; args lists meaning, kind, origin and *)
(* note in the order of the fields array.                                  *)
(***************************************************************************)
MaxId == 2

EditFields == <<"meaning", "kind", "origin", "note">>

EditValues == {"x", "y"}

EditArgs == [1..Len(EditFields) -> {<<>>} \cup {<<v>> : v \in EditValues}]

RECURSIVE edit_query(_, _, _, _)
\* The loop `for (fld, old, val) in fields` from field i on, with the local
\* first and the query_str built so far.
edit_query(args, i, first, query_str) ==
    IF i > Len(EditFields) THEN query_str
    ELSE LET sep == IF ~first THEN query_str \o ", " ELSE query_str
             pushed == IF args[i] # <<>> THEN sep \o EditFields[i] \o " = ?"
                       ELSE query_str
         IN edit_query(args, i + 1, FALSE, pushed)

RECURSIVE edit_values(_, _)
\* fields.iter().filter_map(val): the values given, from field i on.
edit_values(args, i) ==
    IF i > Len(EditFields) THEN <<>> ELSE args[i] \o edit_values(args, i + 1)

edit ==
    /\ upd.pc = "start"
    /\ upd' = [upd EXCEPT
                 !.pc = "done",
                 !.query_str = edit_query(upd.args, 1, TRUE, "UPDATE words SET ")
                                   \o " WHERE id = ?",
                 !.vs = edit_values(upd.args, 1) \o <<upd.id>>]
    /\ UNCHANGED <<parserVars, cliVars, evo, app>>

InitEdit ==
    /\ input = ""
    /\ start = "lsc_file"
    /\ pc = "start"
    /\ stack = <<>>
    /\ calls = NoCalls
    /\ result = NoResult
    /\ origin = NoOrigin
    /\ words = NoWords
    /\ cli = NotRunning
    /\ evo = NoEvolve
    /\ app = NoApply
    /\ \E a \in EditArgs, i \in 1..MaxId :
         upd = [NoEdit EXCEPT !.pc = "start", !.args = a, !.id = i]

NextEdit == edit

SpecEdit == InitEdit /\ [][NextEdit]_vars

(***************************************************************************)
(* Rule::apply (sc.rs).  A symbol is its text; a word, a pattern and a     *)
(* result are sequences of symbols.  Offsets are 0-based as in the source. *)
(* A match is <<start, end>>; its content is always the rule's result.     *)
(***************************************************************************)
MaxWord == 3
MaxPattern == 2
MaxResult == 1

Symbols == {"a", "b"}

SymbolSeqs(n) == UNION {[1..k -> Symbols] : k \in 0..n}

RECURSIVE find_matches(_, _, _)
\* The loop labelled 'outer from i on: a position where the pattern does
\* not match leaves the whole loop (break 'outer), and the positions are
\* those below len - pattern.len().
find_matches(w, pattern, i) ==
    IF i >= Len(w) - Len(pattern) THEN <<>>
    ELSE IF SubSeq(w, i + 1, i + Len(pattern)) = pattern
        THEN <<<<i, i + Len(pattern)>>>> \o find_matches(w, pattern, i + 1)
    ELSE <<>>

RECURSIVE retain(_, _, _)
\* matches.retain from match k on: a match that starts before last_end is
\* dropped, a match that is kept moves last_end to its end.
retain(matches, k, last_end) ==
    IF k > Len(matches) THEN <<>>
    ELSE IF last_end > matches[k][1] THEN retain(matches, k + 1, last_end)
    ELSE <<matches[k]>> \o retain(matches, k + 1, matches[k][2])

RECURSIVE build(_, _, _, _, _, _)
\* The loop over the kept matches from match k on.  symbols is an iterator
\* over the old word of which taken symbols were taken: the symbols before
\* a match are taken from it, those of the match are not; content is the
\* rule's result and from the start of the match.  The value is
\* <<new, whether every assert!(head == start) held>>.
build(w, content, matches, k, head, taken) ==
    IF k > Len(matches) THEN <<<<>>, TRUE>>
    ELSE LET from == matches[k][1]
             n == IF head < from THEN from - head ELSE 0
             rest == build(w, content, matches, k + 1, matches[k][2], taken + n)
         IN <<SubSeq(w, taken + 1, taken + n) \o content \o rest[1],
              (head + n = from) /\ rest[2]>>

\* The word is shorter than the pattern: len - pattern.len() is below zero
\* in usize.  With overflow checks the subtraction panics.  Without them it
\* wraps to a large bound, and at i = 0 the inner loop either meets a
\* symbol that differs (break 'outer, no match) or indexes the word past
\* its end (panic).
apply_short(w, pattern, checks) ==
    IF checks \/ w = SubSeq(pattern, 1, Len(w))
    THEN [symbols |-> w, panic |-> TRUE, asserted |-> TRUE]
    ELSE [symbols |-> <<>>, panic |-> FALSE, asserted |-> TRUE]

apply ==
    /\ app.pc = "start"
    /\ \E checks \in BOOLEAN :
         LET w == app.word
             kept == retain(find_matches(w, app.pattern, 0), 1, 0)
             new == build(w, app.result, kept, 1, 0, 0)
             out == IF Len(w) < Len(app.pattern) THEN apply_short(w, app.pattern, checks)
                    ELSE [symbols |-> new[1], panic |-> FALSE, asserted |-> new[2]]
         IN app' = [app EXCEPT !.pc = "done", !.symbols = out.symbols,
                               !.panic = out.panic, !.asserted = out.asserted]
    /\ UNCHANGED <<parserVars, cliVars, evo, upd>>

InitApply ==
    /\ input = ""
    /\ start = "lsc_file"
    /\ pc = "start"
    /\ stack = <<>>
    /\ calls = NoCalls
    /\ result = NoResult
    /\ origin = NoOrigin
    /\ words = NoWords
    /\ cli = NotRunning
    /\ evo = NoEvolve
    /\ upd = NoEdit
    /\ \E w \in SymbolSeqs(MaxWord), p \in SymbolSeqs(MaxPattern), r \in SymbolSeqs(MaxResult) :
         app = [NoApply EXCEPT !.pc = "start", !.word = w, !.symbols = w,
                               !.pattern = p, !.result = r]

NextApply == apply

SpecApply == InitApply /\ [][NextApply]_vars

(***************************************************************************)
(* Reading a finished run.                                                 *)
(***************************************************************************)
Done(r, s) == pc = "done" /\ start = r /\ input = s

Has(r, p) == <<r, p>> \in DOMAIN calls

Out(r, p) == calls[<<r, p>>]

Matches(r, p) == Has(r, p) /\ Out(r, p).ok

KidsOf(r, p) == IF Matches(r, p) THEN Out(r, p).kids ELSE <<>>

SpanText(n) == SubSeq(input, n.from + 1, n.to)

NameClass == "['A'..='Z' | 'a'..='z' | '0'..='9']"

\* The alternatives of statement, in the order they are tried.
StatementOrder ==
    <<"featureDecl", "diacriticDecl", "symbolDecl", "classDecl", "elementDecl",
      "syllableDecl", "deromanizer", "interRomanizer", "romanizer", "changeRule",
      "standardExpression">>

\* The kind of the statement at offset p, scanning the alternatives from the
\* left: the first one that matches there.
ScanKind(p) ==
    LET i == CHOOSE i \in 1..Len(StatementOrder) :
                 /\ Matches(StatementOrder[i], p)
                 /\ \A j \in 1..(i - 1) : ~Matches(StatementOrder[j], p)
    IN StmtOf[StatementOrder[i]]

(***************************************************************************)
(* C1.  A file whose only content is a feature declaration with a single   *)
(* name, preceded and followed by any run of spaces, tabs or newlines, is  *)
(* accepted by lsc_file and yields exactly <<FeatureDecl>>.                *)
(* Fails on the name syllable: featureModifier takes the bare word, no     *)
(* name follows, the feature list matches empty and the word is then       *)
(* parsed as a change rule.                                                *)
(***************************************************************************)
C1_SingleFeatureFile ==
    (pc = "done" /\ start = "lsc_file" /\ input \in FeatureFiles)
        => (result.ok /\ result.value = <<"FeatureDecl">>)

(***************************************************************************)
(* C2.  For every input lsc_file accepts, the returned sequence lists the  *)
(* statement kinds in the order their text appears: the statements matched *)
(* tile the input from left to right (after the leading skip, each starts  *)
(* where the previous one ended, the last ends at the end of the input,    *)
(* none is empty), and the k-th value is the kind of the k-th of them.     *)
(* A feature, a class and a symbol declaration yield                       *)
(* <<FeatureDecl, ClassDecl, SymbolDecl>>.                                 *)
(***************************************************************************)
ThreeKinds == "Feature a\nClass c {x}\nSymbol s"

C2_StatementOrder ==
    /\ (pc = "done" /\ start = "lsc_file" /\ result.ok) =>
         LET ks == KidsOf("lsc_file", 0)
         IN /\ Len(result.value) = Len(ks)
            /\ \A k \in 1..Len(ks) :
                 /\ ks[k].tag = "statement"
                 /\ ks[k].from < ks[k].to
                 /\ ks[k].from = (IF k = 1 THEN Out("_", 0).pos ELSE ks[k - 1].to)
                 /\ result.value[k] = ScanKind(ks[k].from)
            /\ (IF ks = <<>> THEN Out("_", 0).pos ELSE ks[Len(ks)].to) = Len(input)
    /\ Done("lsc_file", ThreeKinds) =>
         result.value = <<"FeatureDecl", "ClassDecl", "SymbolDecl">>

C2_Witness ==
    /\ Done("lsc_file", ThreeKinds)
    /\ result.ok
    /\ Len(result.value) = 3

(***************************************************************************)
(* C3.  As claimed: for every valid declaration `Feature a, b, c` the      *)
(* parse result holds exactly 3 boolean feature statements, in order.      *)
(* The result is one statement: see C3_OneDeclThreeFeatures.               *)
(***************************************************************************)
C3_ThreeStatements ==
    (pc = "done" /\ start = "lsc_file" /\ input \in Feature3Files /\ result.ok)
        => (Len(result.value) = 3 /\ \A k \in 1..3 : result.value[k] = "FeatureDecl")

(***************************************************************************)
(* C3, amended.  For every declaration `Feature a, b, c` that lsc_file     *)
(* accepts, the result is exactly one FeatureDecl statement, and its       *)
(* feature list matched exactly 3 features (plusFeature), the k-th         *)
(* spanning the k-th listed name, in the order a, b, c.                    *)
(***************************************************************************)
C3_OneDeclThreeFeatures ==
    \A a \in FeatureNames, b \in FeatureNames, c \in FeatureNames :
        (Done("lsc_file", Feature3(a, b, c)) /\ result.ok) =>
            LET fs == KidsOf("featureDecl", 0)
            IN /\ result.value = <<"FeatureDecl">>
               /\ Len(fs) = 3
               /\ \A k \in 1..3 :
                    fs[k].tag = "plusFeature" /\ SpanText(fs[k]) = <<a, b, c>>[k]

C3_Witness ==
    /\ Done("lsc_file", Feature3("soft", "b2", "soft"))
    /\ result.ok
    /\ Len(KidsOf("featureDecl", 0)) = 3

(***************************************************************************)
(* C4.  The input `Feature` with no feature name is rejected: lsc_file     *)
(* returns an error whose position is just past `Feature` (offset 7) and   *)
(* whose expected set includes a name.                                     *)
(* Fails: plusFeature ** "," matches no feature and the input is accepted. *)
(***************************************************************************)
C4_FeatureWithoutName ==
    Done("lsc_file", "Feature") =>
        (~result.ok /\ result.location = 7 /\ NameClass \in result.expected)

(***************************************************************************)
(* C5.  The top-level input `x => y / a_b` is accepted and yields exactly  *)
(* one StandardExpression with from = x, to = y and a condition            *)
(* environment with before = a and after = b, consuming the whole input.   *)
(* Fails: changeRule matches `x ` with an empty block, and                 *)
(* standardExpression skips no whitespace before `=>`.                     *)
(***************************************************************************)
C5_StandardExpression ==
    Done("lsc_file", "x => y / a_b") =>
        LET ks == KidsOf("standardExpression", 0)
            es == IF Len(ks) = 3 THEN KidsOf("environment", ks[3].from + 2) ELSE <<>>
        IN /\ result.ok
           /\ result.value = <<"StandardExpression">>
           /\ Len(ks) = 3
           /\ ks[1].tag = "ruleElement" /\ ks[1].from = 0
           /\ ks[2].tag = "unconditionalRuleElement" /\ ks[2].from = 5
           /\ ks[3].tag = "compoundEnvironment"
           /\ KidsOf("compoundEnvironment", ks[3].from) = <<Node("condition", ks[3].from, 12)>>
           /\ Len(es) = 2
           /\ SpanText(es[1]) = "a" /\ SpanText(es[2]) = "b"

(***************************************************************************)
(* C6.  Under symbolDecl, `Symbol name [matrix]` is accepted as one        *)
(* SymbolDecl through the matrix alternative, the matrix consumed as part  *)
(* of the declaration, and `Symbol name, name2` through the list           *)
(* alternative; neither form is taken by the other alternative.            *)
(* Fails: the list alternative matches zero further names, so the matrix   *)
(* alternative is never tried and `[m]` is left unconsumed.                *)
(***************************************************************************)
C6_SymbolAlternatives ==
    /\ Done("symbolDecl", "Symbol n [m]") =>
         /\ result.ok
         /\ \E k \in 1..Len(KidsOf("symbolDecl", 0)) : KidsOf("symbolDecl", 0)[k].tag = "matrix"
    /\ Done("symbolDecl", "Symbol n, n2") =>
         /\ result.ok
         /\ Len(KidsOf("symbolDecl", 0)) = 2
         /\ \A k \in 1..Len(KidsOf("symbolDecl", 0)) : KidsOf("symbolDecl", 0)[k].tag = "symbolName"

(***************************************************************************)
(* C7.  The input `x => y // {a_b, c_d}` is accepted as a standard         *)
(* expression whose environment has no condition and an exclusion that is  *)
(* a disjunction of exactly two environments, a_b and c_d, in that order.  *)
(* Fails: no whitespace is skipped before `=>` (nor before `//`).          *)
(***************************************************************************)
C7_ExclusionList ==
    Done("standardExpression", "x => y // {a_b, c_d}") =>
        LET ks == KidsOf("standardExpression", 0)
            cs == IF Len(ks) = 3 THEN KidsOf("compoundEnvironment", ks[3].from) ELSE <<>>
            xs == IF Len(cs) = 1 THEN KidsOf("exclusion", cs[1].from) ELSE <<>>
            es == IF Len(xs) = 1 THEN KidsOf("environmentList", xs[1].from) ELSE <<>>
        IN /\ result.ok
           /\ Len(cs) = 1 /\ cs[1].tag = "exclusion"
           /\ Len(xs) = 1 /\ xs[1].tag = "environmentList"
           /\ Len(es) = 2
           /\ \A k \in 1..2 : es[k].tag = "environment"
           /\ SpanText(es[1]) = "a_b" /\ SpanText(es[2]) = "c_d"

(***************************************************************************)
(* C8.  As claimed: the rule element `ab+` parses as a Sequence of two     *)
(* members, a followed by Repeat(b, one-or-more), never as a Repeat        *)
(* applied to the two-symbol unit ab.                                      *)
(***************************************************************************)
C8_SequenceOfTwo ==
    Done("unconditionalRuleElement", "ab+") =>
        LET ms == KidsOf("sequence", 0)
        IN /\ result.ok
           /\ KidsOf("unconditionalRuleElement", 0) = <<Node("sequence", 0, 3)>>
           /\ ms = <<Node("simple", 0, 1), Node("postfix", 1, 3)>>
           /\ KidsOf("postfix", 1) = <<Node("repeater", 1, 3)>>

(***************************************************************************)
(* C8, amended.  The rule element `ab+` parses as one Repeat (postfix,     *)
(* repeater) whose operand is the single Simple text `ab` (the name token  *)
(* takes both letters) and whose repeat token is `+`; all three characters *)
(* are consumed and no Sequence is formed.                                 *)
(***************************************************************************)
C8_RepeatOfText ==
    Done("unconditionalRuleElement", "ab+") =>
        /\ result.ok
        /\ KidsOf("unconditionalRuleElement", 0) = <<Node("postfix", 0, 3)>>
        /\ KidsOf("postfix", 0) = <<Node("repeater", 0, 3)>>
        /\ KidsOf("repeater", 0) = <<Node("simple", 0, 2), Node("repeaterType", 2, 3)>>
        /\ KidsOf("simple", 0) = <<Node("text", 0, 2)>>
        /\ ~Matches("sequence", 0)

C8_Witness == Done("unconditionalRuleElement", "ab+") /\ Matches("repeater", 0)

(***************************************************************************)
(* C9.  The rule element `a&b>c` is accepted by the interfix alternative   *)
(* as a single chain that consumes all five characters, with the three     *)
(* operands a, b, c and the operators &, > in that order (the chain is     *)
(* matched from the left, each operator joining what precedes it to the    *)
(* next operand).  The same chain is what an element declaration holds.    *)
(***************************************************************************)
InterfixChain(p) ==
    LET os == KidsOf("interfix", p)
    IN /\ Matches("interfix", p)
       /\ Out("interfix", p).pos = p + 5
       /\ os = <<Node("interfixElement", p, p + 1), Node("interfixElement", p + 2, p + 3),
                 Node("interfixElement", p + 4, p + 5)>>
       /\ <<SpanText(os[1]), SpanText(os[2]), SpanText(os[3])>> = <<"a", "b", "c">>
       /\ SubSeq(input, os[1].to + 1, os[2].from) = "&"
       /\ SubSeq(input, os[2].to + 1, os[3].from) = ">"

C9_InterfixChain ==
    /\ Done("unconditionalRuleElement", "a&b>c") =>
         /\ result.ok
         /\ KidsOf("unconditionalRuleElement", 0) = <<Node("interfix", 0, 5)>>
         /\ InterfixChain(0)
    /\ Done("lsc_file", "Element e a&b>c") =>
         /\ result.value = <<"ElementDecl">>
         /\ KidsOf("unconditionalRuleElement", 10) = <<Node("interfix", 10, 15)>>
         /\ InterfixChain(10)

C9_Witness ==
    /\ Done("unconditionalRuleElement", "a&b>c")
    /\ Len(KidsOf("interfix", 0)) = 3

(***************************************************************************)
(* C10.  As claimed: for `a &b` the interfix alternative fails, and the    *)
(* input is instead parsed by the rule-element grammar as a Sequence with  *)
(* exactly 2 members that consumes the whole text.                         *)
(***************************************************************************)
C10_SequenceInstead ==
    Done("unconditionalRuleElement", "a &b") =>
        /\ Has("interfix", 0) /\ ~Matches("interfix", 0)
        /\ result.ok
        /\ KidsOf("unconditionalRuleElement", 0) = <<Node("sequence", 0, 4)>>
        /\ Len(KidsOf("sequence", 0)) = 2

(***************************************************************************)
(* C10, amended.  For `a &b` the interfix alternative fails (whitespace    *)
(* before the operator is not allowed), and the rule-element grammar       *)
(* matches only the Simple element `a`: the match ends after one           *)
(* character, ` &b` is left unconsumed and no Sequence is formed.          *)
(***************************************************************************)
C10_SimpleOnly ==
    Done("unconditionalRuleElement", "a &b") =>
        /\ Has("interfix", 0) /\ ~Matches("interfix", 0)
        /\ result.matched /\ result.pos = 1 /\ ~result.ok
        /\ KidsOf("unconditionalRuleElement", 0) = <<Node("simple", 0, 1)>>
        /\ ~Matches("sequence", 0)

C10_Witness ==
    /\ Done("unconditionalRuleElement", "a &b")
    /\ Has("interfix", 0)
    /\ result.pos = 1

C12_AllOrNothing ==
    /\ (pc = "done" /\ start = "lsc_file") =>
         LET ks == KidsOf("lsc_file", 0)
         IN /\ result.returns
            /\ IF result.ok
               THEN /\ Len(result.value) = Len(ks)
                    /\ (IF ks = <<>> THEN Out("_", 0).pos ELSE ks[Len(ks)].to) = Len(input)
                    /\ result.location = NoFar
                    /\ result.expected = {}
               ELSE /\ result.value = <<>>
                    /\ result.location \in 0..Len(input)
                    /\ result.expected # {}
    /\ (pc = "done" /\ start = "lsc_file" /\ input \in TailFiles) =>
         (~result.ok /\ result.value = <<>> /\ KidsOf("lsc_file", 0) # <<>>)

C12_Witness ==
    /\ Done("lsc_file", "Feature a\nSymbol s\n]")
    /\ ~result.ok
    /\ Len(KidsOf("lsc_file", 0)) = 2

(***************************************************************************)
(* C13.  Reparse-stability: for every accepted file and every statement    *)
(* of its result, parsing the text that statement consumed on its own,     *)
(* with rule statement or with the statement's own rule, succeeds,         *)
(* consumes the whole text and gives a statement of the same kind.         *)
(***************************************************************************)
C13_ReparseStable ==
    (pc = "done" /\ origin.set) =>
        /\ input = SubSeq(origin.file, origin.from + 1, origin.to)
        /\ start = origin.rule
        /\ result.returns
        /\ result.matched
        /\ result.pos = Len(input)
        /\ (IF start = "statement"
            THEN StmtOf[KidsOf("statement", 0)[1].tag]
            ELSE StmtOf[start]) = origin.kind

C13_Witness ==
    /\ pc = "done"
    /\ origin.set
    /\ origin.file = "Feature a\nClass c {x}\n"
    /\ origin.from = 10
    /\ origin.kind = "ClassDecl"
    /\ result.ok

(***************************************************************************)
(* C14.  Each keyword of the declaration grammar is recognised with an     *)
(* uppercase and with a lowercase first letter, with the same result: the  *)
(* rule the keyword belongs to accepts the text in both spellings.         *)
(* Fails for diacritic (written "diatritic"), rtl ("Rtl" twice),           *)
(* unchanged ("Unchanged" twice) and (syllable) (written "syllable").      *)
(***************************************************************************)
C14_KeywordCase ==
    \A k \in KeywordPairs :
        (pc = "done" /\ start = k[1] /\ input \in {k[2], k[3]}) => result.ok

(***************************************************************************)
(* C15.  When the program is started with --disable-checks,                *)
(* check_missing_ipa is never called before it ends, whichever command is  *)
(* executed (phon with a language included).                               *)
(* Fails for phon: main overwrites disable_checks with "no language was    *)
(* given", so the flag is lost when a language is given.  (For the same    *)
(* reason phon without a language switches the check off when the flag is  *)
(* absent.)                                                                *)
(***************************************************************************)
C15_DisableChecks == (cli.pc = "exit" /\ cli.given) => ~cli.checked

(***************************************************************************)
(* C16.  Homophone guard of add.  Every add executed without -H keeps a    *)
(* table in which no language holds two words with the same trimmed        *)
(* romanization in that state (so it holds after any sequence of such      *)
(* adds); an add without -H whose trimmed romanization is already in the   *)
(* target language fails and leaves the table as it was; the same add      *)
(* with -H, when it succeeds, appends the word.                            *)
(***************************************************************************)
Trimmed(s) == TrimEnd(TrimStart(s))

NoHomophones(ws) ==
    \A i, j \in 1..Len(ws) :
        (i # j /\ ws[i].lang = ws[j].lang) => Trimmed(ws[i].rom) # Trimmed(ws[j].rom)

Holds(ws, lang, rom) == \E i \in 1..Len(ws) : ws[i].lang = lang /\ Trimmed(ws[i].rom) = rom

AddGuard ==
    (cli.pc = "exec" /\ cli.cmd = "add" /\ cli'.pc # "exec") =>
        LET a == cli'.args
            rom == Trimmed(a.word)
        IN /\ (~a.homophone /\ NoHomophones(words)) => NoHomophones(words')
           /\ (~a.homophone /\ Holds(words, a.lang, rom)) => (cli'.err /\ words' = words)
           /\ (a.homophone /\ Holds(words, a.lang, rom) /\ ~cli'.err) =>
                /\ Len(words') = Len(words) + 1
                /\ SubSeq(words', 1, Len(words)) = words
                /\ words'[Len(words')].lang = a.lang
                /\ words'[Len(words')].rom = rom

C16_HomophoneGuard == [][AddGuard]_vars

C16_Witness ==
    /\ cli.pc = "exit"
    /\ cli.cmd = "add"
    /\ cli.args.word = " a "
    /\ ~cli.args.homophone
    /\ cli.err
    /\ words = <<[lang |-> cli.args.lang, rom |-> "a", ipa |-> TRUE]>>

(***************************************************************************)
(* C17.  A block holds at least one expression: a change rule, romanizer   *)
(* or deromanizer header followed by no expression is not accepted, and    *)
(* blockElement does not match an empty expression list.                   *)
(* Fails: expressionList is expression()*, which matches nothing at all.   *)
(***************************************************************************)
C17_BlockNeedsExpression ==
    /\ (pc = "done" /\ start = "lsc_file" /\ input \in EmptyBlockFiles) => ~result.ok
    /\ Done("blockElement", "") => ~result.matched

(***************************************************************************)
(* C18.  Inside a change rule a parenthesised nested block `(a=>b)` is     *)
(* accepted through the parenthesised alternative of blockElement, its     *)
(* parentheses and content consumed as part of the enclosing block.        *)
(* Fails: the expressionList alternative matches empty first, so the       *)
(* parenthesised alternative is never tried.                               *)
(***************************************************************************)
C18_NestedBlock ==
    /\ Done("blockElement", "(a=>b)") =>
         /\ result.ok
         /\ KidsOf("blockElement", 0) = <<Node("block", 1, 5)>>
    /\ Done("lsc_file", "r:(a=>b)") =>
         /\ result.ok
         /\ result.value = <<"ChangeRule">>
         /\ Matches("block", 3)
         /\ Out("block", 2).pos = Len(input)

(***************************************************************************)
(* C19.  A condition followed by an exclusion is accepted by               *)
(* compoundEnvironment as one compound environment holding both clauses    *)
(* and consuming both.                                                     *)
(* Fails: the condition alternative alone is tried first and matches, so   *)
(* the exclusion is left unconsumed.                                       *)
(***************************************************************************)
C19_ConditionAndExclusion ==
    (pc = "done" /\ start = "compoundEnvironment" /\ input \in BothClauses) =>
        LET ks == KidsOf("compoundEnvironment", 0)
        IN /\ result.ok
           /\ Len(ks) = 2
           /\ ks[1].tag = "condition"
           /\ ks[2].tag = "exclusion"
           /\ ks[2].to = Len(input)

(***************************************************************************)
(* C20.  A bounded element immediately followed by a repeat token is       *)
(* parsed by the rule-element grammar as a Repeat (postfix, repeater) of   *)
(* that element, the token consumed with it, exactly as a simple element   *)
(* followed by the same token is.                                          *)
(* Fails: bounded is the first alternative of unconditionalRuleElement and *)
(* matches the group alone, leaving the token unconsumed.                  *)
(***************************************************************************)
C20_BoundedRepeat ==
    (pc = "done" /\ start = "unconditionalRuleElement"
       /\ input \in BoundedRepeats \cup SimpleRepeats) =>
        /\ result.ok
        /\ KidsOf("unconditionalRuleElement", 0) = <<Node("postfix", 0, Len(input))>>
        /\ KidsOf("postfix", 0) = <<Node("repeater", 0, Len(input))>>
        /\ Len(KidsOf("repeater", 0)) = 2
        /\ KidsOf("repeater", 0)[1].tag = (IF input \in BoundedRepeats THEN "bounded" ELSE "simple")
        /\ KidsOf("repeater", 0)[2].tag = "repeaterType"

(***************************************************************************)
(* C21.  Interfix accepts exactly the operators `&`, `&!` and `>` between  *)
(* operands: `a&!b` is one interfix of the two operands a and b joined by  *)
(* the operator `&!`, `a&b` and `a>b` are interfixes of a and b, and `!&` *)
(* joins no two operands (no interfix matches `a!&b`).                     *)
(* The operator alternatives are "&" / "!&" / ">": `a!&b` is an interfix   *)
(* of a and b, and in `a&!b` the operator is `&` and the second operand    *)
(* the negated element `!b`.                                               *)
(***************************************************************************)
Joined(op) ==
    LET os == KidsOf("interfix", 0)
    IN /\ result.ok
       /\ KidsOf("unconditionalRuleElement", 0) = <<Node("interfix", 0, Len(input))>>
       /\ Len(os) = 2
       /\ <<SpanText(os[1]), SpanText(os[2])>> = <<"a", "b">>
       /\ SubSeq(input, os[1].to + 1, os[2].from) = op

C21_InterfixOperators ==
    /\ Done("unconditionalRuleElement", "a&b") => Joined("&")
    /\ Done("unconditionalRuleElement", "a>b") => Joined(">")
    /\ Done("unconditionalRuleElement", "a&!b") => Joined("&!")
    /\ Done("unconditionalRuleElement", "a!&b") => ~Matches("interfix", 0)

(***************************************************************************)
(* C22.  Each leaf form of simple is recognised whole as its own variant:  *)
(* simple matches each leaf text to its end, and of `$$` it consumes both  *)
(* characters as the single leaf BetweenWords, where of `$` it consumes    *)
(* the one character of WordBoundary.                                      *)
(* The alternative ("$" _) stands before ("$$" _), so of `$$` simple       *)
(* takes the first `$` as a word boundary and stops after one character.   *)
(***************************************************************************)
C22_LeafForms ==
    (pc = "done" /\ start = "simple" /\ input \in LeafTexts) =>
        /\ result.matched
        /\ result.pos = Len(input)
        /\ result.ok

(***************************************************************************)
(* C23.  A `#` comment running to the end of its line is skipped like      *)
(* whitespace: a file made by putting a comment into an accepted file      *)
(* before the first statement, at the end of a statement's line, between   *)
(* two statements or after the last one (with or without a newline after   *)
(* the comment) is accepted with the statement sequence of the file it was *)
(* made from.                                                              *)
(* `_` is (comment()? whitespace())*: a comment counts only when           *)
(* whitespace follows it, so a comment that ends the file is not skipped   *)
(* and the file is rejected.                                               *)
(***************************************************************************)
PlainValue(f) ==
    CASE f = "Feature a\nSymbol s\n" -> <<"FeatureDecl", "SymbolDecl">>
      [] f = "Feature a" -> <<"FeatureDecl">>
      [] f = "" -> <<>>

C23_CommentsSkipped ==
    /\ \A pf \in PlainFiles :
          Done("lsc_file", pf[1]) => (result.ok /\ result.value = PlainValue(pf[1]))
    /\ \A cp \in CommentPairs :
          Done("lsc_file", cp[1]) => (result.ok /\ result.value = PlainValue(cp[2]))

(***************************************************************************)
(* Termination of the generated parser, read off the grammar.  A rule      *)
(* function loops forever in two ways only: a repetition whose iteration   *)
(* (separator and element) matches without consuming, and a rule that      *)
(* calls itself before anything was consumed.                              *)
(***************************************************************************)
RECURSIVE Nullable(_, _)
\* Can e match without consuming, given the set N of rules that can?
Nullable(e, N) ==
    CASE e.op = "lit" -> e.t = ""
      [] e.op = "cls" -> FALSE
      [] e.op = "seq" -> \A i \in 1..Len(e.xs) : Nullable(e.xs[i], N)
      [] e.op = "alt" -> \E i \in 1..Len(e.xs) : Nullable(e.xs[i], N)
      [] e.op = "rep" -> e.min = 0 \/ Nullable(e.x, N)
      [] e.op = "opt" -> TRUE
      [] e.op = "quiet" -> Nullable(e.x, N)
      [] e.op = "ref" -> e.r \in N

RECURSIVE NullableFrom(_)
NullableFrom(N) ==
    LET N2 == {r \in DOMAIN Grammar : Nullable(Grammar[r], N)}
    IN IF N2 = N THEN N ELSE NullableFrom(N2)

\* The rules that can match without consuming.
NullableRules == NullableFrom({})

RECURSIVE Repetitions(_)
\* The repetitions (`*`, `+`, `**`, `++`) inside e.
Repetitions(e) ==
    CASE e.op \in {"lit", "cls", "ref"} -> {}
      [] e.op \in {"seq", "alt"} -> UNION {Repetitions(e.xs[i]) : i \in 1..Len(e.xs)}
      [] e.op = "rep" -> {e} \cup Repetitions(e.x) \cup Repetitions(e.sep)
      [] e.op \in {"opt", "quiet"} -> Repetitions(e.x)

RECURSIVE FirstCalls(_)
RECURSIVE FirstCallsSeq(_, _)
\* The rules e can call at the offset it starts at.
FirstCallsSeq(xs, i) ==
    IF i > Len(xs) THEN {}
    ELSE FirstCalls(xs[i])
         \cup (IF Nullable(xs[i], NullableRules) THEN FirstCallsSeq(xs, i + 1) ELSE {})

FirstCalls(e) ==
    CASE e.op \in {"lit", "cls"} -> {}
      [] e.op = "seq" -> FirstCallsSeq(e.xs, 1)
      [] e.op = "alt" -> UNION {FirstCalls(e.xs[i]) : i \in 1..Len(e.xs)}
      [] e.op = "rep" ->
           FirstCalls(e.x)
           \cup (IF Nullable(e.x, NullableRules) THEN FirstCalls(e.sep) ELSE {})
      [] e.op \in {"opt", "quiet"} -> FirstCalls(e.x)
      [] e.op = "ref" -> {e.r}

RECURSIVE ReachedFrom(_)
ReachedFrom(S) ==
    LET S2 == S \cup UNION {FirstCalls(Grammar[r]) : r \in S}
    IN IF S2 = S THEN S ELSE ReachedFrom(S2)

\* Every repetition consumes in each iteration, and no rule reaches itself
\* without consuming.
GrammarTerminates ==
    /\ \A r \in DOMAIN Grammar : \A e \in Repetitions(Grammar[r]) :
          ~(Nullable(e.x, NullableRules) /\ Nullable(e.sep, NullableRules))
    /\ \A r \in DOMAIN Grammar : r \notin ReachedFrom(FirstCalls(Grammar[r]))

(***************************************************************************)
(* C24.  Every parse terminates: the grammar has no repetition that can    *)
(* iterate without consuming and no rule that reaches itself without       *)
(* consuming, and accordingly in every run no rule call fails to return    *)
(* and the start rule hands its caller an outcome.                         *)
(***************************************************************************)
C24_Terminates ==
    /\ \A k \in DOMAIN calls : calls[k].ex = <<>>
    /\ pc = "done" => (result.returns /\ GrammarTerminates)

C24_Witness ==
    /\ Done("lsc_file", "rule-1 ltr:\n(a)=>(b)\nElse:\n(c)=>(d)\n")
    /\ result.ok
    /\ Matches("expressionList", 12)
    /\ Out("expressionList", 12).pos > 12

(***************************************************************************)
(* C25.  For every language table and every two distinct languages from    *)
(* and to of it: evolve ends; if from is not a proper ancestor of to along *)
(* the origin links (a cycle that does not contain from included), it ends *)
(* with the `is not a descendent of` error and no step was run; if from is *)
(* a proper ancestor, the steps that were run are those of the languages   *)
(* on the path from the child of from down to to, one each, in that order  *)
(* (all of them unless the tool failed).                                   *)
(* On a cycle that does not contain from the walk up the origin links      *)
(* never ends; and an origin that names no language ends evolve with the   *)
(* `invalid origin language` error instead.                                *)
(***************************************************************************)
RECURSIVE AncestorsFrom(_, _)
AncestorsFrom(t, S) ==
    LET S2 == S \cup {t[x] : x \in S \cap EvolveIds}
    IN IF S2 = S THEN S ELSE AncestorsFrom(t, S2)

\* from is reached from to by one or more origin links.
ProperAncestor(t, from, to) == from \in AncestorsFrom(t, {t[to]})

RECURSIVE PathDown(_, _, _)
\* The languages from the child of from down to x, for an x below from.
PathDown(t, from, x) ==
    IF t[x] = from THEN <<x>> ELSE Append(PathDown(t, from, t[x]), x)

RanIds == [k \in 1..Len(evo.ran) |-> evo.ran[k].id]

EvolveOutcome ==
    (evo.pc = "done" /\ evo.from \in EvolveIds /\ evo.to \in EvolveIds /\ evo.from # evo.to) =>
        IF ProperAncestor(evo.table, evo.from, evo.to)
        THEN LET path == PathDown(evo.table, evo.from, evo.to)
             IN /\ evo.err \in {"none", "tool"}
                /\ RanIds = SubSeq(path, 1, Len(evo.ran))
                /\ evo.err = "none" => RanIds = path
        ELSE evo.err = "not_descendent" /\ evo.ran = <<>>

C25_EvolveDescent == []EvolveOutcome /\ <>(evo.pc = "done")

(***************************************************************************)
(* C26.  For every non-empty set of the optional fields passed to edit,    *)
(* the UPDATE statement lists exactly the fields given as `field = ?`,     *)
(* in the order meaning, kind, origin, note, separated by one `, ` with    *)
(* none before the first item, and the values bound are the values given   *)
(* in the same order followed by the word id.                              *)
(* The local `first` is cleared after the first field whether or not it    *)
(* was given, so when meaning is absent the list starts with `, `.         *)
(***************************************************************************)
RECURSIVE SetItems(_, _)
\* `field = ?` for the fields given from field i on, joined by `, `.
SetItems(args, i) ==
    IF i > Len(EditFields) THEN ""
    ELSE LET rest == SetItems(args, i + 1)
         IN IF args[i] = <<>> THEN rest
            ELSE EditFields[i] \o " = ?" \o (IF rest = "" THEN "" ELSE ", " \o rest)

C26_UpdateList ==
    (upd.pc = "done" /\ \E i \in 1..Len(EditFields) : upd.args[i] # <<>>) =>
        /\ upd.query_str = "UPDATE words SET " \o SetItems(upd.args, 1) \o " WHERE id = ?"
        /\ upd.vs = edit_values(upd.args, 1) \o <<upd.id>>

(***************************************************************************)
(* C27.  Rule::apply replaces the occurrences of the pattern in the word,  *)
(* read from the left and leaving out those that overlap an earlier kept   *)
(* one, by the rule's result; every other symbol stays, in its place and   *)
(* order, those after the last occurrence included; a word without an      *)
(* occurrence, or shorter than the pattern, is left as it is; apply does   *)
(* not panic and every assert!(head == start) holds.                       *)
(* The search stops at the first position that does not match and never    *)
(* looks at the last position, the symbols after the last kept match are   *)
(* not copied, and a word shorter than the pattern underflows the bound.   *)
(***************************************************************************)
RECURSIVE Replaced(_, _, _, _)
\* w from offset i on, with the occurrences of pattern replaced by content.
Replaced(w, pattern, content, i) ==
    IF i + Len(pattern) <= Len(w) /\ SubSeq(w, i + 1, i + Len(pattern)) = pattern
    THEN IF pattern # <<>> THEN content \o Replaced(w, pattern, content, i + Len(pattern))
         ELSE IF i < Len(w) THEN content \o <<w[i + 1]>> \o Replaced(w, pattern, content, i + 1)
         ELSE content
    ELSE IF i < Len(w) THEN <<w[i + 1]>> \o Replaced(w, pattern, content, i + 1)
    ELSE <<>>

C27_ApplyReplaces ==
    app.pc = "done" =>
        /\ ~app.panic
        /\ app.asserted
        /\ app.symbols = Replaced(app.word, app.pattern, app.result, 0)
====
